---- MODULE Spec2Model ----
(***************************************************************************)
(* Request gateway of frontend/src/lib/api.js: the process-wide active     *)
(* origin, request() with its one-shot fallback to the hosted origin, the  *)
(* error normalisation of extractMessage(), the get/post/put entry points  *)
(* and sendChatMessage().                                                  *)
(*                                                                         *)
(* Strings the code inspects (URLs, paths, error messages) are sequences   *)
(* of tokens, so that trimming, stripping a trailing slash, prefix tests   *)
(* and the /Network Error/i pattern are computed rather than assumed.      *)
(* JavaScript values that may be undefined, null or a string are records   *)
(* [t, s]. Each call is one slot of 1..MaxCalls; the slots run             *)
(* interleaved at their awaits, as promises do on the single JS thread.    *)
(***************************************************************************)
EXTENDS Naturals, Sequences, FiniteSets

VARIABLES
    env,            \* import.meta.env.VITE_API_URL as read at module load
    activeBaseUrl,  \* let activeBaseUrl
    pc,             \* per call: "idle", "pending" (awaiting axios), "settled"
    method,         \* per call: request()'s method argument
    path,           \* per call: request()'s path argument
    payload,        \* per call: request()'s payload argument
    attempt,        \* per call: request()'s attempt argument of the running frame
    isChat,         \* per call: TRUE when entered through sendChatMessage
    sent,           \* per call: the axios configs issued so far, with the origin read
    caught,         \* per call: the errors the catch block has seen so far
    result,         \* per call: how request() settled
    chat            \* per call: how sendChatMessage settled

vars == <<env, activeBaseUrl, pc, method, path, payload, attempt, isChat,
          sent, caught, result, chat>>

\* Number of calls made over the process lifetime.
MaxCalls == 2

Calls == 1..MaxCalls

-----------------------------------------------------------------------------
\* JavaScript values

Undefined == [t |-> "undefined", s |-> <<>>]
Null == [t |-> "null", s |-> <<>>]
Str(s) == [t |-> "str", s |-> s]

\* JS truthiness of undefined / null / string
Truthy(v) == v.t = "str" /\ v.s # <<>>

\* a || b
Or(a, b) == IF Truthy(a) THEN a ELSE b

Last(s) == s[Len(s)]
Front(s) == SubSeq(s, 1, Len(s) - 1)

\* String.prototype.trim on a token sequence (" " is the whitespace token)
RECURSIVE TrimLeft(_)
TrimLeft(s) == IF s # <<>> /\ Head(s) = " " THEN TrimLeft(Tail(s)) ELSE s
RECURSIVE TrimRight(_)
TrimRight(s) == IF s # <<>> /\ Last(s) = " " THEN TrimRight(Front(s)) ELSE s
Trim(s) == TrimRight(TrimLeft(s))

\* s.replace(/\/$/, "")
StripTrailingSlash(s) == IF s # <<>> /\ Last(s) = "/" THEN Front(s) ELSE s

-----------------------------------------------------------------------------
\* Origins and configuration

LOCAL_DEFAULT_URL == <<"http://", "localhost:5000">>
REMOTE_FALLBACK_URL == <<"https://", "astrolog-ai.onrender.com">>
CUSTOM_URL == <<"https://", "api.example.test">>

\* Values of VITE_API_URL; <<>> stands for unset or empty.
EnvValues ==
    { <<>>,
      <<" ">>,
      LOCAL_DEFAULT_URL \o <<"/">>,
      <<" ">> \o CUSTOM_URL \o <<"/", " ">>,
      CUSTOM_URL \o <<"/", "/">>,
      REMOTE_FALLBACK_URL }

initialBase(e) == IF e # <<>> /\ Trim(e) # <<>> THEN Trim(e) ELSE LOCAL_DEFAULT_URL

InitialActive(e) == StripTrailingSlash(initialBase(e))

makeUrl(base, p) ==
    IF p = <<>> THEN base
    ELSE IF Head(p) \in {"http://", "https://"} THEN p
    ELSE LET normalizedBase == IF base # <<>> /\ Last(base) = "/" THEN Front(base) ELSE base
             normalizedPath == IF Head(p) = "/" THEN p ELSE <<"/">> \o p
         IN  normalizedBase \o normalizedPath

-----------------------------------------------------------------------------
\* What axios settles with

NoBody == [obj |-> FALSE, error |-> Undefined, message |-> Undefined, detail |-> Undefined]
Body(e, m, d) == [obj |-> TRUE, error |-> e, message |-> m, detail |-> d]

NoResponse == [present |-> FALSE, status |-> 0, data |-> NoBody]
Response(st, b) == [present |-> TRUE, status |-> st, data |-> b]

\* The value the catch block binds; nil is TRUE for a rejection with no error object.
AxiosError(resp, code, msg) == [nil |-> FALSE, response |-> resp, code |-> code, message |-> msg]

NetworkErrorMsg == <<"Network", "Error">>
TimeoutMsg == <<"timeout", "of", "15000ms", "exceeded">>
StatusMsg(st) == <<"Request", "failed", "with", "status", "code", st>>

ErrNetwork == AxiosError(NoResponse, "ERR_NETWORK", Str(NetworkErrorMsg))
ErrTimeout == AxiosError(NoResponse, "ECONNABORTED", Str(TimeoutMsg))
Err404 == AxiosError(Response(404, Body(Str(<<"not", "found">>), Undefined, Undefined)),
                     "ERR_BAD_REQUEST", Str(StatusMsg("404")))
Err500 == AxiosError(Response(500, NoBody), "ERR_BAD_RESPONSE", Str(StatusMsg("500")))

\* axios before 1.0: the message alone tells a network failure
ErrNetworkLegacy == AxiosError(NoResponse, "", Str(NetworkErrorMsg))

Errors == {ErrNetwork, ErrNetworkLegacy, ErrTimeout, Err404, Err500}

\* Every shape of rejection extractMessage and the classification tell apart
FieldValues(tag) == {Undefined, Null, Str(<<>>), Str(<<tag>>)}
Bodies ==
    {NoBody} \cup
    {Body(e, m, d) : e \in FieldValues("E"), m \in FieldValues("M"), d \in FieldValues("D")}
HttpErrors ==
    {AxiosError(Response(st, b), "ERR_BAD_REQUEST", msg) :
        st \in {404, 500}, b \in Bodies, msg \in {Undefined, Str(<<"status">>)}}
TransportErrors ==
    {AxiosError(NoResponse, code, msg) :
        code \in {"ERR_NETWORK", ""},
        msg \in {Undefined, Str(<<>>), Str(NetworkErrorMsg), Str(TimeoutMsg),
                 Str(<<"socket", "NETWORK", "error", "seen">>)}}
AllErrors == HttpErrors \cup TransportErrors

\* response.data of a 2xx answer
NullData == [t |-> "null", reply |-> Undefined]
ObjData(r) == [t |-> "object", reply |-> r]
Datas == {NullData, ObjData(Str(<<"hello">>))}

-----------------------------------------------------------------------------
\* extractMessage and the failure classification of request()

\* The two fixed user-facing strings, in ASCII
FallbackMessage == Str(<<"Istek sirasinda bir sorun olustu. Lutfen tekrar dene.">>)
ApologyMessage == Str(<<"Uzgunum, su anda yanit veremiyorum.">>)

\* error.response?.data?.<field>
DataField(error, f) ==
    IF error.response.present /\ error.response.data.obj
    THEN error.response.data[f]
    ELSE Undefined

\* Variant: the failure's own message is preferred to the body's error field
extractMessageOwnFirst(error) ==
    IF error.nil THEN FallbackMessage
    ELSE Or(Or(error.message,
               Or(Or(DataField(error, "error"), DataField(error, "message")),
                  DataField(error, "detail"))),
            FallbackMessage)

extractMessage(error) ==
    IF error.nil THEN FallbackMessage
    ELSE LET responseMessage ==
                 Or(Or(DataField(error, "error"), DataField(error, "message")),
                    DataField(error, "detail"))
         IN  IF Truthy(responseMessage) THEN responseMessage
             ELSE Or(error.message, FallbackMessage)

\* Lower-casing of the tokens the /Network Error/i pattern can match
Lower(tok) ==
    CASE tok \in {"Network", "NETWORK", "network"} -> "network"
      [] tok \in {"Error", "ERROR", "error"} -> "error"
      [] OTHER -> tok

\* /Network Error/i.test(s)
MatchesNetworkError(s) ==
    \E i \in 1..(Len(s) - 1) : Lower(s[i]) = "network" /\ Lower(s[i + 1]) = "error"

\* Variant: only the error code is looked at
isNetworkErrorCodeOnly(error) ==
    ~error.response.present /\ error.code = "ERR_NETWORK"

\* Variant: every failure without a response counts
isNetworkErrorNoResponse(error) == ~error.response.present

isNetworkError(error) ==
    /\ ~error.response.present
    /\ \/ error.code = "ERR_NETWORK"
       \/ error.message = Str(NetworkErrorMsg)
       \/ MatchesNetworkError(Or(error.message, Str(<<>>)).s)

\* Variant: the retry is allowed once more and on any origin
canRetryTwice(att, error, active) == att <= 1 /\ isNetworkError(error)

\* Variant: the origin is not looked at
canRetryAnyOrigin(att, error, active) == att = 0 /\ isNetworkError(error)

canRetry(att, error, active) ==
    /\ att = 0
    /\ isNetworkError(error)
    /\ active = LOCAL_DEFAULT_URL

\* Variant: a first network failure moves to the other origin
NextActiveToggle(att, error, active) ==
    IF att = 0 /\ isNetworkError(error)
    THEN IF active = REMOTE_FALLBACK_URL THEN LOCAL_DEFAULT_URL ELSE REMOTE_FALLBACK_URL
    ELSE active

\* activeBaseUrl once the catch block has run
NextActive(att, error, active) ==
    IF canRetry(att, error, active) THEN REMOTE_FALLBACK_URL ELSE active

\* Variant: the origin is the one configured at load
CurrentOriginStale == InitialActive(env)

\* The origin request() reads when it builds its url
CurrentOrigin == activeBaseUrl

-----------------------------------------------------------------------------
\* How a call settles

NoResult == [kind |-> "none", data |-> NullData, message |-> Undefined]
Return(d) == [kind |-> "return", data |-> d, message |-> Undefined]
Throw(m) == [kind |-> "throw", data |-> NullData, message |-> m]

\* Variant: 404 is turned into null for every method
SurfaceAny404(m, error) ==
    IF error.response.present /\ error.response.status = 404
    THEN Return(NullData)
    ELSE Throw(extractMessage(error))

\* The tail of request()'s catch block, once no retry is made
Surface(m, error) ==
    IF m = "get" /\ error.response.present /\ error.response.status = 404
    THEN Return(NullData)
    ELSE Throw(extractMessage(error))

NoChat == [kind |-> "none", value |-> Undefined]
ChatReturn(v) == [kind |-> "return", value |-> v]
ChatThrow(v) == [kind |-> "throw", value |-> v]

\* The try block of sendChatMessage: await post(...), then response.reply
ChatTry(res) ==
    IF res.kind = "throw" THEN ChatThrow(res.message)
    ELSE IF res.data.t = "null" THEN ChatThrow(Str(<<"TypeError">>))
    ELSE ChatReturn(res.data.reply)

\* Variant: response.reply is read with no catch around it
sendChatMessageNoCatch(res) == ChatTry(res)

\* try { ... } catch { return apology }
sendChatMessageResult(res) ==
    IF ChatTry(res).kind = "throw" THEN ChatReturn(ApologyMessage) ELSE ChatTry(res)

AfterRequest(c, res) == IF isChat[c] THEN sendChatMessageResult(res) ELSE NoChat

-----------------------------------------------------------------------------
\* Routes the entry points are called with

NatalChartPath == <<"/", "natal-chart">>
ProfilePath == <<"/", "api/profile">>
ProfileQueryPath == <<"/", "api/profile", "?email=", "a%40b.c">>
ChatPath == <<"/", "chat/message">>

NoPayload == "undefined"
Payloads == {"chartA"}

Config(m, base, p, data) == [method |-> m, url |-> makeUrl(base, p), data |-> data, base |-> base]

\* request(m, p, data) entered with attempt = 0: read the origin, issue axios.
\* Calls are numbered in the order they are made.
Enter(c, m, p, data, viaChat) ==
    /\ pc[c] = "idle"
    /\ \A k \in Calls : k < c => pc[k] # "idle"
    /\ pc' = [pc EXCEPT ![c] = "pending"]
    /\ method' = [method EXCEPT ![c] = m]
    /\ path' = [path EXCEPT ![c] = p]
    /\ payload' = [payload EXCEPT ![c] = data]
    /\ attempt' = [attempt EXCEPT ![c] = 0]
    /\ isChat' = [isChat EXCEPT ![c] = viaChat]
    /\ sent' = [sent EXCEPT ![c] = <<Config(m, CurrentOrigin, p, data)>>]
    /\ UNCHANGED <<env, activeBaseUrl, caught, result, chat>>

Get(c) == Enter(c, "get", ProfileQueryPath, NoPayload, FALSE)

Post(c, data) == Enter(c, "post", NatalChartPath, data, FALSE)

Put(c, data) == Enter(c, "put", ProfilePath, data, FALSE)

SendChatMessage(c, data) == Enter(c, "post", ChatPath, data, TRUE)

\* axios resolves: return response.data
Resolve(c, d) ==
    /\ pc[c] = "pending"
    /\ pc' = [pc EXCEPT ![c] = "settled"]
    /\ result' = [result EXCEPT ![c] = Return(d)]
    /\ chat' = [chat EXCEPT ![c] = AfterRequest(c, Return(d))]
    /\ UNCHANGED <<env, activeBaseUrl, method, path, payload, attempt, isChat, sent, caught>>

\* axios rejects: the catch block; a retry re-enters request() with attempt + 1,
\* which reads the origin just written and issues axios again
Reject(c, error) ==
    /\ pc[c] = "pending"
    /\ UNCHANGED <<env, method, path, payload, isChat>>
    /\ caught' = [caught EXCEPT ![c] = Append(@, error)]
    /\ activeBaseUrl' = NextActive(attempt[c], error, activeBaseUrl)
    /\ IF canRetry(attempt[c], error, activeBaseUrl)
       THEN /\ attempt' = [attempt EXCEPT ![c] = @ + 1]
            /\ sent' = [sent EXCEPT ![c] =
                            Append(@, Config(method[c], CurrentOrigin', path[c], payload[c]))]
            /\ UNCHANGED <<pc, result, chat>>
       ELSE /\ pc' = [pc EXCEPT ![c] = "settled"]
            /\ result' = [result EXCEPT ![c] = Surface(method[c], error)]
            /\ chat' = [chat EXCEPT ![c] = AfterRequest(c, Surface(method[c], error))]
            /\ UNCHANGED <<attempt, sent>>

Init ==
    /\ env \in EnvValues
    /\ activeBaseUrl = InitialActive(env)
    /\ pc = [c \in Calls |-> "idle"]
    /\ method = [c \in Calls |-> ""]
    /\ path = [c \in Calls |-> <<>>]
    /\ payload = [c \in Calls |-> NoPayload]
    /\ attempt = [c \in Calls |-> 0]
    /\ isChat = [c \in Calls |-> FALSE]
    /\ sent = [c \in Calls |-> <<>>]
    /\ caught = [c \in Calls |-> <<>>]
    /\ result = [c \in Calls |-> NoResult]
    /\ chat = [c \in Calls |-> NoChat]

\* Calls made at any time, their awaits interleaved
Next ==
    \E c \in Calls :
        \/ Get(c)
        \/ \E data \in Payloads : Post(c, data)
        \/ \E data \in Payloads : Put(c, data)
        \/ \E data \in Payloads : SendChatMessage(c, data)
        \/ \E d \in Datas : Resolve(c, d)
        \/ \E error \in Errors : Reject(c, error)

Spec == Init /\ [][Next]_vars

\* Calls made one after the other: a call is made only when none is in flight
Quiet == \A k \in Calls : pc[k] # "pending"

NextSeq ==
    \E c \in Calls :
        \/ Quiet /\ Get(c)
        \/ \E data \in Payloads : Quiet /\ Post(c, data)
        \/ \E data \in Payloads : Quiet /\ Put(c, data)
        \/ \E data \in Payloads : Quiet /\ SendChatMessage(c, data)
        \/ \E d \in Datas : Resolve(c, d)
        \/ \E error \in Errors : Reject(c, error)

SpecSeq == Init /\ [][NextSeq]_vars

\* One call, every shape of rejection
NextMsg ==
    \E c \in {1} :
        \/ Get(c)
        \/ \E data \in Payloads : Post(c, data)
        \/ \E data \in Payloads : Put(c, data)
        \/ \E data \in Payloads : SendChatMessage(c, data)
        \/ \E d \in Datas : Resolve(c, d)
        \/ \E error \in AllErrors : Reject(c, error)

SpecMsg == Init /\ [][NextMsg]_vars

-----------------------------------------------------------------------------
\* Vocabulary of the properties, stated without the code's own classification

\* Failures with no HTTP response that carry the network-error code or message
NetworkFailures == {ErrNetwork, ErrNetworkLegacy}

Started(c) == pc[c] # "idle"
Settled(c) == pc[c] = "settled"

\* The first attempt of c went to the local default and failed at network level
FirstFailedOnPrimary(c) ==
    /\ Len(caught[c]) >= 1
    /\ sent[c][1].base = LOCAL_DEFAULT_URL
    /\ caught[c][1] \in NetworkFailures

\* The second axios config of c repeats the first against the fallback origin
RetriedOnFallback(c) ==
    /\ Len(sent[c]) = 2
    /\ sent[c][2].base = REMOTE_FALLBACK_URL
    /\ sent[c][2].url = REMOTE_FALLBACK_URL \o path[c]
    /\ sent[c][2].method = sent[c][1].method
    /\ sent[c][2].data = sent[c][1].data
    /\ sent[c][1].url = LOCAL_DEFAULT_URL \o path[c]

\* The final attempt of c ended with an HTTP response of status st
FinalStatus(c, st) ==
    /\ Settled(c)
    /\ Len(caught[c]) = Len(sent[c])
    /\ Last(caught[c]).response.present
    /\ Last(caught[c]).response.status = st

\* "present and non-empty"
NonEmpty(v) == v.t = "str" /\ Len(v.s) > 0

\* The message the precedence rule picks for a failure
ByPrecedence(error) ==
    LET body == error.response.data
        hasBody == error.response.present /\ body.obj
    IN  IF hasBody /\ NonEmpty(body.error) THEN body.error
        ELSE IF hasBody /\ NonEmpty(body.message) THEN body.message
        ELSE IF hasBody /\ NonEmpty(body.detail) THEN body.detail
        ELSE IF NonEmpty(error.message) THEN error.message
        ELSE FallbackMessage

\* C1: with calls made one at a time, a call whose first attempt goes to the
\* local default and fails at network level switches the active origin to the
\* fallback, is retried exactly once there with the same method, path and
\* payload, and settles with the outcome of that retry.
C1_RetryOnceOnFallback ==
    \A c \in Calls :
        FirstFailedOnPrimary(c) =>
            /\ activeBaseUrl = REMOTE_FALLBACK_URL
            /\ RetriedOnFallback(c)
            /\ attempt[c] = 1
            /\ (Settled(c) /\ Len(caught[c]) = 1) => result[c].kind = "return"
            /\ (Settled(c) /\ Len(caught[c]) = 2) =>
                   result[c] =
                       IF method[c] = "get" /\ FinalStatus(c, 404)
                       THEN Return(NullData)
                       ELSE Throw(ByPrecedence(caught[c][2]))
            /\ Len(caught[c]) = 2 => Settled(c)

C1_Witness ==
    \E c \in Calls :
        /\ FirstFailedOnPrimary(c)
        /\ caught[c] = <<ErrNetworkLegacy>>
        /\ Settled(c)
        /\ result[c] = Return(ObjData(Str(<<"hello">>)))
        /\ method[c] = "put"

\* C2: the active origin is always its initial configured value or the
\* fallback; it only ever changes from the initial value to the fallback, so
\* it changes at most once and never leaves the fallback.
C2_OriginMonotone ==
    /\ [](activeBaseUrl \in {InitialActive(env), REMOTE_FALLBACK_URL})
    /\ [][activeBaseUrl' # activeBaseUrl =>
            /\ activeBaseUrl = InitialActive(env)
            /\ activeBaseUrl # REMOTE_FALLBACK_URL
            /\ activeBaseUrl' = REMOTE_FALLBACK_URL]_vars

C2_Witness ==
    /\ InitialActive(env) = LOCAL_DEFAULT_URL
    /\ activeBaseUrl = REMOTE_FALLBACK_URL
    /\ \E c \in Calls :
           /\ Settled(c)
           /\ sent[c][1].base = REMOTE_FALLBACK_URL
           /\ caught[c] = <<ErrNetwork>>

\* C3: a call makes at most two attempts, the second only as the one retry;
\* a failure of the retry settles the call, and a network-level failure of
\* the retry is thrown to the caller with no third attempt.
C3_AtMostTwoAttempts ==
    \A c \in Calls :
        /\ Len(sent[c]) <= 2
        /\ attempt[c] <= 1
        /\ Started(c) => Len(sent[c]) = attempt[c] + 1
        /\ Len(caught[c]) <= Len(sent[c])
        /\ Len(caught[c]) = 2 => Settled(c)
        /\ (Len(caught[c]) = 2 /\ caught[c][2] \in NetworkFailures) =>
               /\ result[c].kind = "throw"
               /\ result[c].message = Str(NetworkErrorMsg)
        /\ (~Settled(c)) => result[c] = NoResult

C3_Witness ==
    \E c \in Calls :
        /\ Len(caught[c]) = 2
        /\ caught[c][1] \in NetworkFailures
        /\ caught[c][2] \in NetworkFailures
        /\ Len(sent[c]) = 2
        /\ result[c].kind = "throw"

\* C4: while the active origin is the fallback, every axios config issued (the
\* first attempt of a new call, or any further attempt) goes to the fallback
\* origin, and a call made then has the fallback as its first target.
C4_FallbackSticky ==
    [][activeBaseUrl = REMOTE_FALLBACK_URL =>
         \A c \in Calls :
             /\ \A i \in (Len(sent[c]) + 1)..Len(sent'[c]) :
                    /\ sent'[c][i].base = REMOTE_FALLBACK_URL
                    /\ sent'[c][i].url = REMOTE_FALLBACK_URL \o path'[c]
             /\ (pc[c] = "idle" /\ pc'[c] # "idle") =>
                    /\ Len(sent'[c]) = 1
                    /\ sent'[c][1].base = REMOTE_FALLBACK_URL
             /\ (Started(c) /\ sent[c][1].base = REMOTE_FALLBACK_URL) =>
                    sent'[c] = sent[c]]_vars

C4_Witness ==
    /\ InitialActive(env) = LOCAL_DEFAULT_URL
    /\ \E c \in Calls :
           /\ Settled(c)
           /\ sent[c] = <<[method |-> "post", url |-> REMOTE_FALLBACK_URL \o ChatPath,
                           data |-> "chartA", base |-> REMOTE_FALLBACK_URL]>>
           /\ caught[c] = <<ErrNetwork>>
           /\ result[c].kind = "throw"

\* C5 as stated: a first attempt against the local default that ends by the
\* timeout switches the active origin to the fallback and is retried once.
C5_TimeoutFallsBack ==
    \A c \in Calls :
        (/\ Len(caught[c]) >= 1
         /\ sent[c][1].base = LOCAL_DEFAULT_URL
         /\ caught[c][1] = ErrTimeout) =>
            /\ activeBaseUrl = REMOTE_FALLBACK_URL
            /\ Len(sent[c]) = 2

\* C5 amended: an attempt that ends by the timeout is not a network failure
\* for the fallback: it is not retried, it leaves the active origin as it
\* was, and the call settles by throwing the timeout's message.
C5_TimeoutSurfaced ==
    [][\A c \in Calls :
          caught'[c] = Append(caught[c], ErrTimeout) =>
              /\ activeBaseUrl' = activeBaseUrl
              /\ sent' = sent
              /\ pc'[c] = "settled"
              /\ result'[c] = Throw(Str(TimeoutMsg))]_vars

C5_Witness ==
    \E c \in Calls :
        /\ caught[c] = <<ErrTimeout>>
        /\ sent[c][1].base = LOCAL_DEFAULT_URL
        /\ activeBaseUrl = LOCAL_DEFAULT_URL
        /\ Settled(c)

\* C6: GET whose final attempt gets HTTP 404 returns null and does not throw,
\* on either origin; POST or PUT with a final 404 throws; a failed final
\* attempt that is not GET with 404 is never turned into a returned value.
C6_Get404IsNull ==
    \A c \in Calls :
        (Settled(c) /\ Len(caught[c]) = Len(sent[c])) =>
            /\ (method[c] = "get" /\ FinalStatus(c, 404)) => result[c] = Return(NullData)
            /\ (method[c] \in {"post", "put"} /\ FinalStatus(c, 404)) =>
                   result[c].kind = "throw"
            /\ (~FinalStatus(c, 404)) => result[c].kind = "throw"

C6_Witness ==
    \E c, k \in Calls :
        /\ method[c] = "get"
        /\ Len(sent[c]) = 2
        /\ FinalStatus(c, 404)
        /\ result[c] = Return(NullData)
        /\ method[k] = "put"
        /\ FinalStatus(k, 404)
        /\ result[k].kind = "throw"

\* C7: every error request() throws carries exactly the message picked by the
\* precedence body.error, body.message, body.detail, the failure's own
\* message, the fixed fallback string, and nothing else.
C7_MessagePrecedence ==
    \A c \in Calls :
        /\ result[c].kind = "throw" =>
               /\ caught[c] # <<>>
               /\ result[c] = [kind |-> "throw", data |-> NullData,
                               message |-> ByPrecedence(Last(caught[c]))]
        /\ (Settled(c) /\ Len(caught[c]) = Len(sent[c])
              /\ ~(method[c] = "get" /\ FinalStatus(c, 404))) =>
               result[c].kind = "throw"

C7_Witness ==
    \E c \in Calls :
        /\ result[c].kind = "throw"
        /\ Last(caught[c]).response.present
        /\ Last(caught[c]).response.data =
               Body(Str(<<>>), Str(<<"M">>), Str(<<"D">>))
        /\ result[c].message = Str(<<"M">>)

\* C8: sendChatMessage never throws; it always settles by returning, and it
\* returns the apology string whenever the underlying request threw.
C8_ChatNeverThrows ==
    \A c \in Calls :
        /\ chat[c].kind # "throw"
        /\ (isChat[c] /\ Settled(c)) =>
               /\ chat[c].kind = "return"
               /\ result[c].kind = "throw" => chat[c].value = ApologyMessage
               /\ result[c] = Return(NullData) => chat[c].value = ApologyMessage
               /\ result[c].kind = "return" /\ result[c].data.t = "object" =>
                      chat[c].value = result[c].data.reply

C8_Witness ==
    \E c \in Calls :
        /\ isChat[c]
        /\ caught[c] = <<ErrNetwork, ErrNetwork>>
        /\ result[c].kind = "throw"
        /\ chat[c] = ChatReturn(ApologyMessage)

\* In this step call c is retried
Retried(c) == Started(c) /\ Len(sent'[c]) > Len(sent[c])

\* In this step the first attempt of c fails at network level while the
\* active origin is the local default
FirstNetworkFailureOnDefault(c) ==
    /\ pc[c] = "pending"
    /\ attempt[c] = 0
    /\ activeBaseUrl = LOCAL_DEFAULT_URL
    /\ \E e \in NetworkFailures : caught'[c] = Append(caught[c], e)

\* C9: the active origin changes, and a call is retried, only in a step where
\* a first attempt fails at network level while the active origin is the
\* local default; in that step both happen, and the origin becomes the
\* fallback.
C9_OnlyFirstNetworkFailureSwitches ==
    [][/\ (activeBaseUrl' # activeBaseUrl \/ \E c \in Calls : Retried(c)) =>
            \E c \in Calls :
                /\ FirstNetworkFailureOnDefault(c)
                /\ Retried(c)
                /\ activeBaseUrl' = REMOTE_FALLBACK_URL
                /\ \A k \in Calls \ {c} : ~Retried(k)
       /\ \A c \in Calls :
              (pc[c] = "pending" /\ caught'[c] # caught[c]
                 /\ ~FirstNetworkFailureOnDefault(c)) =>
                  /\ pc'[c] = "settled"
                  /\ activeBaseUrl' = activeBaseUrl
                  /\ sent' = sent]_vars

C9_Witness ==
    /\ activeBaseUrl = CUSTOM_URL
    /\ \E c \in Calls :
           /\ Settled(c)
           /\ caught[c] = <<ErrNetwork>>
           /\ Len(sent[c]) = 1

\* C10 as stated: calls in flight together whose first attempts all went to
\* the local default and all failed at network level are every one retried
\* once against the fallback, and the origin is switched.
C10_AllConcurrentRetried ==
    \A c, k \in Calls :
        (c # k /\ FirstFailedOnPrimary(c) /\ FirstFailedOnPrimary(k)) =>
            /\ activeBaseUrl = REMOTE_FALLBACK_URL
            /\ Len(sent[c]) = 2
            /\ Len(sent[k]) = 2

====
